---- MODULE Spec2Model ----
(***************************************************************************)
(* A model of sonde-rs: the `.d` provider parser (src/d/parser.rs), the    *)
(* naming and type-mapping helpers of the AST (src/d/ast.rs) and the       *)
(* generation pass Builder::compile (src/builder.rs).                      *)
(*                                                                         *)
(* Text is modelled character by character: a string is a sequence of      *)
(* one-character strings.  The nom combinators used by the parser          *)
(* (take_while, tag, char, take_until, many0, separated_list0) are         *)
(* modelled by what they do on such sequences.                             *)
(***************************************************************************)
EXTENDS Integers, Sequences, FiniteSets, TLC

VARIABLES
    d_files,      \* Builder.d_files: the contents of the added `.d` files, in order
    pc,           \* position inside Builder::compile
    contents,     \* compile's `contents`: concatenation of the files read so far
    providers,    \* compile's `providers`
    h_file_name,  \* path of the unique temporary `.h` file
    ffi_file,     \* the temporary `.c` file: [written, text]
    lib_compiled, \* whether cc::Build compiled the `.c` file
    rs_file,      \* OUT_DIR/sonde.rs: [created, written, text]
    prev_pass,    \* artifacts of the previous completed pass of the same Builder
    p_input,      \* parser: the text handed to the parser under test
    p_rest,       \* parser: script's `input`, the text left to scan
    p_script,     \* parser: script's `script.providers`
    p_state,      \* parser: "probe" | "scan" | "Ok" | "Err"
    p_probe,      \* parser: the result of probe() on p_input
    f_in,         \* pure functions: the input drawn
    f_out         \* pure functions: the results so far

vars == <<d_files, pc, contents, providers, h_file_name, ffi_file, lib_compiled,
          rs_file, prev_pass, p_input, p_rest, p_script, p_state, p_probe, f_in, f_out>>

builder_vars == <<d_files, pc, contents, providers, h_file_name, ffi_file,
                  lib_compiled, rs_file, prev_pass>>
parser_vars == <<p_input, p_rest, p_script, p_state, p_probe>>
fn_vars == <<f_in, f_out>>

----------------------------------------------------------------------------
(* Characters and strings *)

LowerLetters ==
    <<"a", "b", "c", "d", "e", "f", "g", "h", "i", "j", "k", "l", "m",
      "n", "o", "p", "q", "r", "s", "t", "u", "v", "w", "x", "y", "z">>

UpperLetters ==
    <<"A", "B", "C", "D", "E", "F", "G", "H", "I", "J", "K", "L", "M",
      "N", "O", "P", "Q", "R", "S", "T", "U", "V", "W", "X", "Y", "Z">>

Digits == <<"0", "1", "2", "3", "4", "5", "6", "7", "8", "9">>

\* Other characters of the input alphabet, each with its code point.  "U+2041"
\* stands for the single non-ASCII character CARET INSERTION POINT.  (In the
\* generated text, "U+0060" likewise stands for the single character GRAVE
\* ACCENT, which a TLA+ string cannot hold.)
Punctuation ==
    << <<"\t", 9>>, <<"\n", 10>>, <<"\r", 13>>, <<" ", 32>>, <<"#", 35>>, <<"$", 36>>,
       <<"(", 40>>, <<")", 41>>, <<"*", 42>>, <<",", 44>>, <<"-", 45>>, <<"/", 47>>,
       <<";", 59>>, <<"_", 95>>, <<"{", 123>>, <<"}", 125>>, <<"U+2041", 8257>> >>

Range(s) == {s[i] : i \in DOMAIN s}

\* F applied to the value of e, with e evaluated once (LET v == e IN F(v)).
Bind(e, F(_)) == CHOOSE r \in {F(v) : v \in {e}} : TRUE

Char == Range(LowerLetters) \cup Range(UpperLetters) \cup Range(Digits)
        \cup {Punctuation[i][1] : i \in DOMAIN Punctuation}

IndexIn(s, c) == CHOOSE i \in DOMAIN s : s[i] = c

\* The Unicode scalar value of a character.
CodePoint(c) ==
    IF c \in Range(LowerLetters) THEN 96 + IndexIn(LowerLetters, c)
    ELSE IF c \in Range(UpperLetters) THEN 64 + IndexIn(UpperLetters, c)
    ELSE IF c \in Range(Digits) THEN 47 + IndexIn(Digits, c)
    ELSE (CHOOSE p \in Range(Punctuation) : p[1] = c)[2]

\* `c as u8`: the cast keeps the low eight bits.
AsU8(c) == CodePoint(c) % 256

\* nom::character::is_alphanumeric on a byte.
is_alphanumeric(b) ==
    \/ b \in 65..90
    \/ b \in 97..122
    \/ b \in 48..57

\* char::to_lowercase / char::to_uppercase on the alphabet.
LowerChar(c) == IF c \in Range(UpperLetters) THEN LowerLetters[IndexIn(UpperLetters, c)] ELSE c
UpperChar(c) == IF c \in Range(LowerLetters) THEN UpperLetters[IndexIn(LowerLetters, c)] ELSE c

to_lowercase(str) == Bind(str, LAMBDA s : [i \in DOMAIN s |-> LowerChar(s[i])])
to_uppercase(str) == Bind(str, LAMBDA s : [i \in DOMAIN s |-> UpperChar(s[i])])

Drop(str, n) == Bind(str, LAMBDA s : SubSeq(s, n + 1, Len(s)))
Take(s, n) == SubSeq(s, 1, n)

StartsWith(str, t) == Bind(str, LAMBDA s : Len(t) <= Len(s) /\ Take(s, Len(t)) = t)

\* Length of the longest prefix of str made of characters of set S.
PrefixLen(str, S) ==
    Bind(str, LAMBDA s :
        CHOOSE n \in 0..Len(s) :
            /\ \A i \in 1..n : s[i] \in S
            /\ n = Len(s) \/ s[n + 1] \notin S)

\* Length of the longest suffix of str made of characters of set S.
SuffixLen(str, S) ==
    Bind(str, LAMBDA s :
        CHOOSE n \in 0..Len(s) :
            /\ \A i \in (Len(s) - n + 1)..Len(s) : s[i] \in S
            /\ n = Len(s) \/ s[Len(s) - n] \notin S)

\* Index of the first occurrence of t in str, 0 when there is none.
Find(str, t) ==
    Bind(str, LAMBDA s :
        Bind({i \in 1..(Len(s) - Len(t) + 1) : SubSeq(s, i, i + Len(t) - 1) = t},
             LAMBDA hits :
                 IF hits = {} THEN 0 ELSE CHOOSE i \in hits : \A j \in hits : i <= j))

\* The concatenation of the first n strings of ss.
RECURSIVE ConcatTo(_, _)
ConcatTo(ss, n) == IF n = 0 THEN <<>> ELSE ConcatTo(ss, n - 1) \o ss[n]

Concat(strs) == Bind(strs, LAMBDA ss : ConcatTo(ss, Len(ss)))

\* ss[1] sep ss[2] sep ... ss[n], for n >= 1.
RECURSIVE JoinTo(_, _, _)
JoinTo(ss, sep, n) == IF n = 1 THEN ss[1] ELSE JoinTo(ss, sep, n - 1) \o sep \o ss[n]

\* [String]::join
Join(strs, sep) ==
    Bind(strs, LAMBDA ss : IF Len(ss) = 0 THEN <<>> ELSE JoinTo(ss, sep, Len(ss)))

\* Decimal rendering of a natural number ({nth} in format!).
RECURSIVE Decimal(_)
Decimal(n) == IF n < 10 THEN <<Digits[n + 1]>> ELSE Decimal(n \div 10) \o <<Digits[(n % 10) + 1]>>

\* str::trim: White_Space characters of the alphabet.
WhiteSpace == {" ", "\t", "\n", "\r"}
trim(str) ==
    Bind(Drop(str, PrefixLen(str, WhiteSpace)),
         LAMBDA t : Take(t, Len(t) - SuffixLen(t, WhiteSpace)))

----------------------------------------------------------------------------
(* src/d/parser.rs *)

\* A parser result: IResult.  ok = FALSE is Err(Err::Error(..)).
Done(rest, out) == [ok |-> TRUE, rest |-> rest, out |-> out]
Fail == [ok |-> FALSE, rest |-> <<>>, out |-> <<>>]

KwProvider == <<"p", "r", "o", "v", "i", "d", "e", "r">>
KwProbe == <<"p", "r", "o", "b", "e">>

take_while(input, S) ==
    Bind(input, LAMBDA s :
        Bind(PrefixLen(s, S), LAMBDA n : Done(Drop(s, n), Take(s, n))))

tag(input, t) ==
    Bind(input, LAMBDA s : IF StartsWith(s, t) THEN Done(Drop(s, Len(t)), t) ELSE Fail)

char(input, c) == tag(input, <<c>>)

take_until(input, t) ==
    Bind(input, LAMBDA s :
        Bind(Find(s, t), LAMBDA i :
            IF i = 0 THEN Fail ELSE Done(Drop(s, i - 1), Take(s, i - 1))))

WsChars == {"\t", "\r", "\n", " "}
\* Mutant of ws: only blanks are skipped.
ws_blanks_only(input) == take_while(input, {" "})

ws(input) == take_while(input, WsChars)

NameChars == {c \in Char : is_alphanumeric(AsU8(c)) \/ c = "-" \/ c = "_"}
name(input) == take_while(input, NameChars)

TyChars == {c \in Char : c \notin {",", ")"}}
ty(input) == take_while(input, TyChars)

\* canon!(ty)
canon_ty(input) == ty(ws(input).rest)

\* separated_list0(char(','), canon!(ty)) after its first element: `acc` holds
\* the elements so far.  The element parser never fails, the separator always
\* consumes.
RECURSIVE separated_list0_loop(_, _)
separated_list0_loop(input, acc) ==
    Bind(char(input, ","), LAMBDA s :
        IF ~s.ok THEN Done(input, acc)
        ELSE Bind(canon_ty(s.rest), LAMBDA e :
                 separated_list0_loop(e.rest, Append(acc, e.out))))

separated_list0(input) ==
    Bind(canon_ty(input), LAMBDA e : separated_list0_loop(e.rest, <<e.out>>))

\* The closure of probe's `map` on the first n arguments: trim each argument,
\* drop the empty ones.
RECURSIVE filter_arguments_to(_, _)
filter_arguments_to(arguments, n) ==
    IF n = 0 THEN <<>>
    ELSE Bind(trim(arguments[n]), LAMBDA argument :
             IF argument = <<>> THEN filter_arguments_to(arguments, n - 1)
             ELSE Append(filter_arguments_to(arguments, n - 1), argument))

filter_arguments(arguments) ==
    Bind(arguments, LAMBDA as : filter_arguments_to(as, Len(as)))

\* canon!(terminated(char(close), canon!(char(';'))))
closing(input, close) ==
    Bind(char(ws(input).rest, close), LAMBDA c :
        IF ~c.ok THEN Fail ELSE char(ws(c.rest).rest, ";"))

probe(input) ==
    Bind(tag(input, KwProbe), LAMBDA t :
        IF ~t.ok THEN Fail
        ELSE Bind(name(ws(t.rest).rest), LAMBDA n :
             Bind(char(ws(n.rest).rest, "("), LAMBDA o :
                 IF ~o.ok THEN Fail
                 ELSE Bind(separated_list0(o.rest), LAMBDA l :
                      Bind(closing(l.rest, ")"), LAMBDA c :
                          IF ~c.ok THEN Fail
                          ELSE Done(c.rest, [name |-> n.out,
                                             arguments |-> filter_arguments(l.out)]))))))

\* many0(canon!(probe)): stops, without consuming, at the first failure.
RECURSIVE many0_probe(_, _)
many0_probe(input, acc) ==
    Bind(probe(ws(input).rest), LAMBDA p :
        IF ~p.ok THEN Done(input, acc)
        ELSE IF Len(p.rest) = Len(input) THEN Fail
        ELSE many0_probe(p.rest, Append(acc, p.out)))

provider(input) ==
    Bind(tag(input, KwProvider), LAMBDA t :
        IF ~t.ok THEN Fail
        ELSE Bind(name(ws(t.rest).rest), LAMBDA n :
             Bind(char(ws(n.rest).rest, "{"), LAMBDA o :
                 IF ~o.ok THEN Fail
                 ELSE Bind(many0_probe(o.rest, <<>>), LAMBDA m :
                      Bind(IF m.ok THEN closing(m.rest, "}") ELSE Fail, LAMBDA c :
                          IF ~c.ok THEN Fail
                          ELSE Done(c.rest, [name |-> n.out, probes |-> m.out]))))))

\* One iteration of script's loop from (input, script.providers):
\* "more" with the next pair, or the function's return.
script_iteration(input, ps) ==
    Bind(take_until(input, KwProvider), LAMBDA u :
        IF ~u.ok THEN [step |-> "Ok", input |-> <<>>, providers |-> ps]
        ELSE Bind(provider(u.rest), LAMBDA p :
                 IF ~p.ok THEN [step |-> "Err", input |-> <<>>, providers |-> <<>>]
                 ELSE [step |-> "more", input |-> p.rest,
                       providers |-> Append(ps, p.out)]))

RECURSIVE script(_, _)
script(input, ps) ==
    Bind(script_iteration(input, ps), LAMBDA it :
        IF it.step = "more" THEN script(it.input, it.providers)
        ELSE [ok |-> it.step = "Ok", providers |-> it.providers])

\* parse: Ok(Script) or Err(String).
parse(input) == script(input, <<>>)

----------------------------------------------------------------------------
(* src/d/ast.rs *)

\* str::replace("__", "_"): non-overlapping matches, left to right.
RECURSIVE replace_from(_, _)
replace_from(s, i) ==
    IF i > Len(s) THEN <<>>
    ELSE IF i < Len(s) /\ s[i] = "_" /\ s[i + 1] = "_" THEN <<"_">> \o replace_from(s, i + 2)
    ELSE <<s[i]>> \o replace_from(s, i + 1)

\* Mutant of safe_name: the arguments of replace are swapped, "_" becomes "__".
safe_name_doubles(nm) ==
    Bind(nm, LAMBDA s : Concat([i \in DOMAIN s |-> IF s[i] = "_" THEN <<"_", "_">> ELSE <<s[i]>>]))

safe_name(nm) == Bind(nm, LAMBDA s : replace_from(s, 1))

name_for_c_macro(s) == to_uppercase(safe_name(s))
name_for_c(s) == to_lowercase(safe_name(s))
\* Mutant of name_for_rust: the case of the name is kept.
name_for_rust_keeps_case(s) == safe_name(s)

name_for_rust(s) == to_lowercase(safe_name(s))


\* Literal pieces of the format strings.
LitArg ==
    <<"a", "r", "g">>

LitColon ==
    <<":", " ">>

LitMutPtr ==
    <<"*", "m", "u", "t", " ">>

LitCommaSpace ==
    <<",", " ">>

Probe(n, args) == [name |-> n, arguments |-> args]

\* Mutant of argument_names: the last argument is not forwarded.
argument_names_drops_last(pb) ==
    Bind(pb, LAMBDA p :
        Join([i \in 1..(Len(p.arguments) - 1) |-> LitArg \o Decimal(i - 1)], LitCommaSpace))

\* probe.arguments.iter().enumerate().map(|(nth, _)| format!("arg{nth}")).join(", ")
argument_names(pb) ==
    Bind(pb, LAMBDA p :
        Join([i \in 1..Len(p.arguments) |-> LitArg \o Decimal(i - 1)], LitCommaSpace))

arguments_for_c(pb) ==
    Bind(pb, LAMBDA p :
        Join([i \in 1..Len(p.arguments) |->
                  p.arguments[i] \o <<" ">> \o LitArg \o Decimal(i - 1)], LitCommaSpace))

\* The match of arguments_for_c_from_rust: D base type, Rust foreign type.
TypeTable ==
    << << <<"c", "h", "a", "r">>,
         <<"c", "_", "c", "h", "a", "r">> >>,
       << <<"s", "h", "o", "r", "t">>,
         <<"c", "_", "s", "h", "o", "r", "t">> >>,
       << <<"i", "n", "t">>,
         <<"c", "_", "i", "n", "t">> >>,
       << <<"l", "o", "n", "g">>,
         <<"c", "_", "l", "o", "n", "g">> >>,
       << <<"l", "o", "n", "g", " ", "l", "o", "n", "g">>,
         <<"c", "_", "l", "o", "n", "g", "l", "o", "n", "g">> >>,
       << <<"i", "n", "t", "8", "_", "t">>,
         <<"i", "8">> >>,
       << <<"i", "n", "t", "1", "6", "_", "t">>,
         <<"i", "1", "6">> >>,
       << <<"i", "n", "t", "3", "2", "_", "t">>,
         <<"i", "3", "2">> >>,
       << <<"i", "n", "t", "6", "4", "_", "t">>,
         <<"i", "6", "4">> >>,
       << <<"i", "n", "t", "p", "t", "r", "_", "t">>,
         <<"i", "s", "i", "z", "e">> >>,
       << <<"u", "i", "n", "t", "8", "_", "t">>,
         <<"u", "8">> >>,
       << <<"u", "i", "n", "t", "1", "6", "_", "t">>,
         <<"u", "1", "6">> >>,
       << <<"u", "i", "n", "t", "3", "2", "_", "t">>,
         <<"u", "3", "2">> >>,
       << <<"u", "i", "n", "t", "6", "4", "_", "t">>,
         <<"u", "6", "4">> >>,
       << <<"u", "i", "n", "t", "p", "t", "r", "_", "t">>,
         <<"u", "s", "i", "z", "e">> >>,
       << <<"f", "l", "o", "a", "t">>,
         <<"c", "_", "f", "l", "o", "a", "t">> >>,
       << <<"d", "o", "u", "b", "l", "e">>,
         <<"c", "_", "d", "o", "u", "b", "l", "e">> >> >>


TypeBases == {TypeTable[i][1] : i \in DOMAIN TypeTable}

\* "*mut ".repeat(n)
RECURSIVE repeat(_, _)
repeat(s, n) == IF n = 0 THEN <<>> ELSE s \o repeat(s, n - 1)

\* argument_ty.chars().filter(|c| *c == '*').count()
number_of_pointers(argument_ty) ==
    Bind(argument_ty, LAMBDA a : Cardinality({i \in DOMAIN a : a[i] = "*"}))

\* argument_ty.trim_end_matches(|c| c == ' ' || c == '*')
trim_end_matches(argument_ty) ==
    Bind(argument_ty, LAMBDA a : Take(a, Len(a) - SuffixLen(a, {" ", "*"})))

\* The closure of arguments_for_c_from_rust for one argument: the text
\* "arg{nth}: {ptr}{ty}", or the panic naming the unsupported type `t`.
map_argument(nth, argument_ty) ==
    Bind(trim_end_matches(argument_ty), LAMBDA t :
        IF t \in TypeBases
        THEN [ok |-> TRUE, panic |-> <<>>,
              text |-> LitArg \o Decimal(nth) \o LitColon
                       \o repeat(LitMutPtr, number_of_pointers(argument_ty))
                       \o (CHOOSE row \in Range(TypeTable) : row[1] = t)[2]]
        ELSE [ok |-> FALSE, panic |-> t, text |-> <<>>])

\* The whole argument list: the joined text, or the panic of the first
\* argument that has no mapping.
arguments_for_c_from_rust(pb) ==
    Bind([i \in 1..Len(pb.arguments) |-> map_argument(i - 1, pb.arguments[i])], LAMBDA m :
        Bind({i \in DOMAIN m : ~m[i].ok}, LAMBDA bad :
            IF bad = {}
            THEN [ok |-> TRUE, panic |-> <<>>,
                  text |-> Join([i \in DOMAIN m |-> m[i].text], LitCommaSpace)]
            ELSE [ok |-> FALSE, text |-> <<>>,
                  panic |-> m[CHOOSE i \in bad : \A j \in bad : i <= j].panic]))

----------------------------------------------------------------------------
(* src/builder.rs: the text of the two generated files *)

LitInclude ==
    <<"#", "i", "n", "c", "l", "u", "d", "e", " ">>

LitVoid ==
    <<"\n", "v", "o", "i", "d", " ">>

LitProbeInfix ==
    <<"_", "p", "r", "o", "b", "e", "_">>

LitWrapperOpen ==
    <<")", " ", "{", "\n", " ", " ", " ", " ">>

LitWrapperClose ==
    <<")", ";", "\n", "}", "\n">>

LitRsPrelude ==
    <<"/", "/", "/", " ", "B", "i", "n", "d", "i", "n", "g", "s", " ", "f", "r", "o", "m", " ",
      "R", "u", "s", "t", " ", "t", "o", " ", "t", "h", "e", " ", "C", " ", "F", "F", "I", " ",
      "s", "m", "a", "l", "l", " ", "l", "i", "b", "r", "a", "r", "y", " ", "t", "h", "a", "t",
      " ", "c", "a", "l", "l", "s", " ", "t", "h", "e", "\n", "/", "/", "/", " ", "p", "r",
      "o", "b", "e", "s", ".", "\n", "\n", "u", "s", "e", " ", "s", "t", "d", ":", ":", "o",
      "s", ":", ":", "r", "a", "w", ":", ":", "*", ";", "\n", "\n", "e", "x", "t", "e", "r",
      "n", " ", "\"", "C", "\"", " ", "{", "\n">>

LitRsExternsEnd ==
    <<"\n", "}", "\n", "\n">>

LitExternFn ==
    <<" ", " ", " ", " ", "#", "[", "d", "o", "c", "(", "h", "i", "d", "d", "e", "n", ")", "]",
      "\n", " ", " ", " ", " ", "f", "n", " ">>

LitExternEnd ==
    <<")", ";">>

LitModDoc ==
    <<"/", "/", "/", " ", "P", "r", "o", "b", "e", "s", " ", "f", "o", "r", " ", "t", "h", "e",
      " ", "U+0060">>

LitModDocEnd ==
    <<"U+0060", " ", "p", "r", "o", "v", "i", "d", "e", "r", ".", "\n", "p", "u", "b", " ", "m",
      "o", "d", " ", "r", "#">>

LitModOpen ==
    <<" ", "{", "\n", " ", " ", " ", " ", "u", "s", "e", " ", "s", "t", "d", ":", ":", "o",
      "s", ":", ":", "r", "a", "w", ":", ":", "*", ";", "\n", "\n">>

LitModClose ==
    <<"\n", "}">>

LitFnDoc ==
    <<" ", " ", " ", " ", "/", "/", "/", " ", "C", "a", "l", "l", " ", "t", "h", "e", " ", "U+0060">>

LitFnDocMid ==
    <<"U+0060", " ", "p", "r", "o", "b", "e", " ", "o", "f", " ", "t", "h", "e", " ", "U+0060">>

LitFnDocEnd ==
    <<"U+0060", " ", "p", "r", "o", "v", "i", "d", "e", "r", ".", "\n", " ", " ", " ", " ", "p",
      "u", "b", " ", "f", "n", " ", "r", "#">>

LitFnOpen ==
    <<")", " ", "{", "\n", " ", " ", " ", " ", " ", " ", " ", " ", "u", "n", "s", "a", "f",
      "e", " ", "{", " ", "s", "u", "p", "e", "r", ":", ":">>

LitFnClose ==
    <<")", " ", "}", ";", "\n", " ", " ", " ", " ", "}">>

LitOutDir ==
    <<"/", "o", "u", "t">>

LitHPrefix ==
    <<"/", "s", "o", "n", "d", "e">>

LitHSuffix ==
    <<".", "h">>


\* {header_file:?}: the Debug rendering of the path, in double quotes.
DebugPath(path) == <<"\"">> \o path \o <<"\"">>

\* "{prefix}_probe_{suffix}"
ffi_symbol(pv, p) == name_for_c(pv.name) \o LitProbeInfix \o name_for_c(p.name)

\* One C wrapper (builder.rs 144-162).
c_wrapper(pv, p) ==
    LitVoid \o ffi_symbol(pv, p) \o <<"(">> \o arguments_for_c(p) \o LitWrapperOpen
    \o name_for_c_macro(pv.name) \o <<"_">> \o name_for_c_macro(p.name)
    \o <<"(">> \o argument_names(p) \o LitWrapperClose

\* Mutant of ffi_source: the header is included after the wrappers.
ffi_source_include_last(header_file, ps) ==
    Join([i \in 1..Len(ps) |->
             Concat([j \in 1..Len(ps[i].probes) |-> c_wrapper(ps[i], ps[i].probes[j])])],
         <<"\n">>)
    \o LitInclude \o DebugPath(header_file) \o <<"\n">>

\* The `.c` source (builder.rs 132-169).
ffi_source(header_file, ps) ==
    LitInclude \o DebugPath(header_file) \o <<"\n", "\n">>
    \o Join([i \in 1..Len(ps) |->
                Concat([j \in 1..Len(ps[i].probes) |-> c_wrapper(ps[i], ps[i].probes[j])])],
            <<"\n">>)

\* One extern declaration (builder.rs 205-211), given the mapped arguments.
rs_extern(pv, p, args) ==
    LitExternFn \o ffi_symbol(pv, p) \o <<"(">> \o args \o LitExternEnd

\* One Rust wrapper (builder.rs 233-250), given the mapped arguments.
rs_wrapper(pv, p, args) ==
    LitFnDoc \o name_for_rust(p.name) \o LitFnDocMid \o name_for_rust(pv.name)
    \o LitFnDocEnd \o name_for_rust(p.name) \o <<"(">> \o args \o LitFnOpen
    \o ffi_symbol(pv, p) \o <<"(">> \o argument_names(p) \o LitFnClose

\* One module (builder.rs 221-254).
rs_module(pv) ==
    LitModDoc \o name_for_rust(pv.name) \o LitModDocEnd \o name_for_rust(pv.name)
    \o LitModOpen
    \o Join([j \in 1..Len(pv.probes) |->
                rs_wrapper(pv, pv.probes[j], arguments_for_c_from_rust(pv.probes[j]).text)],
            <<"\n", "\n">>)
    \o LitModClose

\* Whether formatting the Rust source panics: some argument has no mapping.
rs_panics(ps) ==
    \E i \in 1..Len(ps) : \E j \in 1..Len(ps[i].probes) :
        ~arguments_for_c_from_rust(ps[i].probes[j]).ok

\* The `sonde.rs` source (builder.rs 186-258).
rs_source(ps) ==
    LitRsPrelude
    \o Join([i \in 1..Len(ps) |->
                Join([j \in 1..Len(ps[i].probes) |->
                         rs_extern(ps[i], ps[i].probes[j],
                                   arguments_for_c_from_rust(ps[i].probes[j]).text)],
                     <<"\n", "\n">>)],
            <<"\n", "\n">>)
    \o LitRsExternsEnd
    \o Join([i \in 1..Len(ps) |-> rs_module(ps[i])], <<"\n", "\n">>)
    \o <<"\n">>

----------------------------------------------------------------------------
(* src/builder.rs: Builder::file and Builder::compile *)

\* Contents of the `.d` files a build script may add.
\* provider foobar {\n    probe abc(char*, int);\n    probe def();\n};\n
TextFoobar ==
    <<"p", "r", "o", "v", "i", "d", "e", "r", " ", "f", "o", "o", "b", "a", "r", " ", "{",
      "\n", " ", " ", " ", " ", "p", "r", "o", "b", "e", " ", "a", "b", "c", "(", "c", "h",
      "a", "r", "*", ",", " ", "i", "n", "t", ")", ";", "\n", " ", " ", " ", " ", "p", "r",
      "o", "b", "e", " ", "d", "e", "f", "(", ")", ";", "\n", "}", ";", "\n">>

\* provider Hopla {\n    probe my__Probe(char **, uint8_t);\n};\n
TextHopla ==
    <<"p", "r", "o", "v", "i", "d", "e", "r", " ", "H", "o", "p", "l", "a", " ", "{", "\n",
      " ", " ", " ", " ", "p", "r", "o", "b", "e", " ", "m", "y", "_", "_", "P", "r", "o", "b",
      "e", "(", "c", "h", "a", "r", " ", "*", "*", ",", " ", "u", "i", "n", "t", "8", "_", "t",
      ")", ";", "\n", "}", ";", "\n">>

\* provider a_b { probe x(); };\nprovider c-d { probe y(long long *); probe z(float); };\n
TextTwo ==
    <<"p", "r", "o", "v", "i", "d", "e", "r", " ", "a", "_", "b", " ", "{", " ", "p", "r", "o",
      "b", "e", " ", "x", "(", ")", ";", " ", "}", ";", "\n", "p", "r", "o", "v", "i", "d",
      "e", "r", " ", "c", "-", "d", " ", "{", " ", "p", "r", "o", "b", "e", " ", "y", "(", "l",
      "o", "n", "g", " ", "l", "o", "n", "g", " ", "*", ")", ";", " ", "p", "r", "o", "b", "e",
      " ", "z", "(", "f", "l", "o", "a", "t", ")", ";", " ", "}", ";", "\n">>

\* provider hello {\n    probe you(string, int);\n};\n
TextHello ==
    <<"p", "r", "o", "v", "i", "d", "e", "r", " ", "h", "e", "l", "l", "o", " ", "{", "\n",
      " ", " ", " ", " ", "p", "r", "o", "b", "e", " ", "y", "o", "u", "(", "s", "t", "r", "i",
      "n", "g", ",", " ", "i", "n", "t", ")", ";", "\n", "}", ";", "\n">>

\* provider broken {\n    probe abc(int;\n
TextBroken ==
    <<"p", "r", "o", "v", "i", "d", "e", "r", " ", "b", "r", "o", "k", "e", "n", " ", "{",
      "\n", " ", " ", " ", " ", "p", "r", "o", "b", "e", " ", "a", "b", "c", "(", "i", "n",
      "t", ";", "\n">>

\* #pragma D option quiet\n
TextPragma ==
    <<"#", "p", "r", "a", "g", "m", "a", " ", "D", " ", "o", "p", "t", "i", "o", "n", " ", "q",
      "u", "i", "e", "t", "\n">>

DFileTexts == {TextFoobar, TextHopla, TextTwo, TextHello, TextBroken, TextPragma}

\* At most this many `.d` files are added to a Builder.
MaxFiles == 2

\* At most this many passes of compile() are run on a Builder.
MaxPasses == 2

\* tempfile: the random part of a temporary file's name.
RandomSuffixes == {<<"a", "B", "3", "d", "E", "6">>, <<"Z", "y", "9", "W", "v", "7">>}

\* tempfile::Builder::new().prefix("sonde").suffix(".h").tempfile_in(&out_dir)
h_file_path(rand) == LitOutDir \o LitHPrefix \o rand \o LitHSuffix

NoFile == [created |-> FALSE, written |-> FALSE, text |-> <<>>]

\* Mutant of collect_providers: the providers of a file are put before those
\* of the files read earlier.
RECURSIVE collect_providers_prepends(_, _, _)
collect_providers_prepends(files, cs, ps) ==
    IF files = <<>> THEN [ok |-> TRUE, contents |-> cs, providers |-> ps]
    ELSE Bind(<<Head(files), cs, ps>>, LAMBDA v :
             Bind(parse(v[1]), LAMBDA sc :
                 IF ~sc.ok
                 THEN [ok |-> FALSE, contents |-> v[2] \o v[1], providers |-> v[3]]
                 ELSE collect_providers_prepends(Tail(files), v[2] \o v[1],
                                                 sc.providers \o v[3])))

\* The loop of builder.rs 78-87 over the files left: read, append to
\* `contents`, parse (unwrap panics on Err), push the providers.
RECURSIVE collect_providers(_, _, _)
collect_providers(files, cs, ps) ==
    IF files = <<>> THEN [ok |-> TRUE, contents |-> cs, providers |-> ps]
    ELSE Bind(<<Head(files), cs, ps>>, LAMBDA v :
             Bind(parse(v[1]), LAMBDA sc :
                 IF ~sc.ok
                 THEN [ok |-> FALSE, contents |-> v[2] \o v[1], providers |-> v[3]]
                 ELSE collect_providers(Tail(files), v[2] \o v[1],
                                        v[3] \o sc.providers)))

BuilderInit ==
    /\ d_files = <<>>
    /\ pc = "new"
    /\ contents = <<>>
    /\ providers = <<>>
    /\ h_file_name = <<>>
    /\ ffi_file = NoFile
    /\ lib_compiled = FALSE
    /\ rs_file = NoFile
    /\ prev_pass = <<>>

\* Builder::file
file ==
    /\ pc = "new"
    /\ Len(d_files) < MaxFiles
    /\ \E text \in DFileTexts : d_files' = Append(d_files, text)
    /\ UNCHANGED <<pc, contents, providers, h_file_name, ffi_file, lib_compiled,
                   rs_file, prev_pass>>

\* Builder::compile, lines 59-88: a new pass starts, the files are read and parsed.
compile_collect ==
    /\ \/ pc = "new" /\ prev_pass' = prev_pass
       \/ /\ pc = "done"
          /\ Len(prev_pass) + 1 < MaxPasses
          /\ prev_pass' = Append(prev_pass, [ffi |-> ffi_file.text, rs |-> rs_file.text])
    /\ LET c == collect_providers(d_files, <<>>, <<>>)
       IN  /\ contents' = c.contents
           /\ providers' = c.providers
           /\ pc' = IF c.ok THEN "h_file" ELSE "panicked"
    /\ h_file_name' = <<>>
    /\ ffi_file' = NoFile
    /\ lib_compiled' = FALSE
    /\ UNCHANGED <<d_files, rs_file>>

\* Lines 91-120: the unique `.h` file; dtrace writes it from `contents`.
compile_h_file ==
    /\ pc = "h_file"
    /\ \E rand \in RandomSuffixes : h_file_name' = h_file_path(rand)
    /\ pc' = "ffi"
    /\ UNCHANGED <<d_files, contents, providers, ffi_file, lib_compiled, rs_file, prev_pass>>

\* Lines 125-172: the `.c` file is created and written.
compile_ffi_file ==
    /\ pc = "ffi"
    /\ ffi_file' = [created |-> TRUE, written |-> TRUE,
                    text |-> ffi_source(h_file_name, providers)]
    /\ pc' = "cc"
    /\ UNCHANGED <<d_files, contents, providers, h_file_name, lib_compiled, rs_file, prev_pass>>

\* Lines 175-177: cc compiles the `.c` file to a static library.
compile_cc ==
    /\ pc = "cc"
    /\ lib_compiled' = TRUE
    /\ pc' = "rs_create"
    /\ UNCHANGED <<d_files, contents, providers, h_file_name, ffi_file, rs_file, prev_pass>>

\* Lines 180-183: File::create makes (or truncates) OUT_DIR/sonde.rs.
compile_rs_create ==
    /\ pc = "rs_create"
    /\ rs_file' = [created |-> TRUE, written |-> FALSE, text |-> <<>>]
    /\ pc' = "rs_write"
    /\ UNCHANGED <<d_files, contents, providers, h_file_name, ffi_file, lib_compiled, prev_pass>>

\* Lines 185-276: the Rust source is formatted (an unsupported type panics
\* here) and written.
compile_rs_write ==
    /\ pc = "rs_write"
    /\ IF rs_panics(providers)
       THEN /\ pc' = "panicked"
            /\ UNCHANGED rs_file
       ELSE /\ pc' = "done"
            /\ rs_file' = [created |-> TRUE, written |-> TRUE, text |-> rs_source(providers)]
    /\ UNCHANGED <<d_files, contents, providers, h_file_name, ffi_file, lib_compiled, prev_pass>>

ParserIdle == p_input = <<>> /\ p_rest = <<>> /\ p_script = <<>> /\ p_state = "-" /\ p_probe = <<>>
FnIdle == f_in = <<>> /\ f_out = <<>>

Init == BuilderInit /\ ParserIdle /\ FnIdle

Next ==
    \/ file /\ UNCHANGED <<parser_vars, fn_vars>>
    \/ compile_collect /\ UNCHANGED <<parser_vars, fn_vars>>
    \/ compile_h_file /\ UNCHANGED <<parser_vars, fn_vars>>
    \/ compile_ffi_file /\ UNCHANGED <<parser_vars, fn_vars>>
    \/ compile_cc /\ UNCHANGED <<parser_vars, fn_vars>>
    \/ compile_rs_create /\ UNCHANGED <<parser_vars, fn_vars>>
    \/ compile_rs_write /\ UNCHANGED <<parser_vars, fn_vars>>

Spec == Init /\ [][Next]_vars

----------------------------------------------------------------------------
(* Reading the generated text back *)

\* The elements of a finite set of numbers, in increasing order.
Sorted(S) == [k \in 1..Cardinality(S) |-> CHOOSE x \in S : Cardinality({y \in S : y < x}) = k - 1]

\* The pieces of str between the occurrences of character c.
SplitOn(str, c) ==
    Bind(str, LAMBDA s :
        Bind(Sorted({i \in DOMAIN s : s[i] = c}), LAMBDA at :
            [k \in 1..(Len(at) + 1) |->
                SubSeq(s, IF k = 1 THEN 1 ELSE at[k - 1] + 1,
                          IF k = Len(at) + 1 THEN Len(s) ELSE at[k] - 1)]))

Lines(text) == SplitOn(text, "\n")

\* The part of str before / after the first occurrence of character c.
Before(str, c) == Bind(str, LAMBDA s : Take(s, Find(s, <<c>>) - 1))
After(str, c) == Bind(str, LAMBDA s : Drop(s, Find(s, <<c>>)))

\* The part of str after its last occurrence of character c.
AfterLast(str, c) ==
    Bind(str, LAMBDA s :
        Drop(s, CHOOSE i \in 0..Len(s) :
                    /\ i = 0 \/ s[i] = c
                    /\ \A j \in (i + 1)..Len(s) : s[j] # c))

\* The lines of a text that start with prefix, each without the prefix.
LinesWith(text, prefix) ==
    Bind(SelectSeq(Lines(text), LAMBDA l : StartsWith(l, prefix)), LAMBDA ls :
        [k \in DOMAIN ls |-> Drop(ls[k], Len(prefix))])

\* The entries of a parameter or argument list "a, b, c" (none when empty).
ListEntries(str) ==
    Bind(str, LAMBDA s :
        IF s = <<>> THEN <<>>
        ELSE Bind(SplitOn(s, ","), LAMBDA es :
                 [k \in DOMAIN es |-> Drop(es[k], PrefixLen(es[k], {" "}))]))

\* What stands between the first "(" of a line and the next ")".
InParens(line) == Before(After(line, "("), ")")

PrefixVoid == <<"v", "o", "i", "d", " ">>
PrefixIndent == <<" ", " ", " ", " ">>
PrefixExternFn == <<" ", " ", " ", " ", "f", "n", " ">>
PrefixPubFn == <<" ", " ", " ", " ", "p", "u", "b", " ", "f", "n", " ", "r", "#">>
PrefixPubMod == <<"p", "u", "b", " ", "m", "o", "d", " ", "r", "#">>
PrefixCall ==
    <<" ", " ", " ", " ", " ", " ", " ", " ", "u", "n", "s", "a", "f", "e", " ", "{", " ",
      "s", "u", "p", "e", "r", ":", ":">>

\* In the `.c` text: the wrapper definitions "void SYMBOL(PARAMS) {" and the
\* macro invocations "    MACRO(ARGS);", in order.
CWrapperLines(text) == LinesWith(text, PrefixVoid)
CMacroLines(text) == LinesWith(text, PrefixIndent)

\* In the `.rs` text: the extern declarations "    fn SYMBOL(PARAMS);", the
\* functions "    pub fn r#NAME(PARAMS) {", the calls
\* "        unsafe { super::SYMBOL(ARGS) };" and the modules "pub mod r#NAME {".
RsExternLines(text) == LinesWith(text, PrefixExternFn)
RsFnLines(text) == LinesWith(text, PrefixPubFn)
RsCallLines(text) == LinesWith(text, PrefixCall)
RsModNames(text) ==
    Bind(LinesWith(text, PrefixPubMod), LAMBDA ls : [k \in DOMAIN ls |-> Before(ls[k], " ")])

\* The name before the "(" of each line.
Heads(ls) == [k \in DOMAIN ls |-> Before(ls[k], "(")]

\* The module each `pub fn` line of the `.rs` text stands in: the name of the
\* last `pub mod` line before it.
RsFnModules(text) ==
    Bind(Lines(text), LAMBDA ls :
        Bind(Sorted({i \in DOMAIN ls : StartsWith(ls[i], PrefixPubFn)}), LAMBDA fns :
            [k \in DOMAIN fns |->
                Bind(CHOOSE m \in 1..fns[k] :
                         /\ StartsWith(ls[m], PrefixPubMod)
                         /\ \A j \in (m + 1)..fns[k] : ~StartsWith(ls[j], PrefixPubMod),
                     LAMBDA m : Before(Drop(ls[m], Len(PrefixPubMod)), " "))]))

\* <<provider, probe>> for every probe of a list of providers, in order.
ProbePairs(ps) ==
    Concat([i \in 1..Len(ps) |-> [j \in 1..Len(ps[i].probes) |-> <<ps[i], ps[i].probes[j]>>]])

\* arg0 .. arg(n-1)
ArgNames(n) == [i \in 1..n |-> LitArg \o Decimal(i - 1)]

AllDone == pc = "done"

----------------------------------------------------------------------------
(* Claims about the generation pass *)

\* C1 (as claimed): whenever a pass fails, by a parse error or by an argument
\* type outside the table, nothing has been produced: the `.c` source is not
\* written or compiled and sonde.rs is not created.
C1_FailureLeavesNoOutput ==
    pc = "panicked" =>
        /\ ~ffi_file.written
        /\ ~lib_compiled
        /\ ~rs_file.created

\* The text of the `.c` file after its first line.
AfterFirstLine(text) == After(text, "\n")

\* C2 (as claimed): run again on the same files, a pass writes byte-identical
\* `.c` source and byte-identical `.rs` source.
C2_SameArtifactsEveryPass ==
    AllDone =>
        \A i \in DOMAIN prev_pass :
            /\ prev_pass[i].ffi = ffi_file.text
            /\ prev_pass[i].rs = rs_file.text

\* C2 (amended): run again on the same files, a pass writes a byte-identical
\* `.rs` source, and a `.c` source that is byte-identical after its first
\* line, the #include of the temporary header, whose path is new in each pass.
C2_SameArtifactsButHeaderPath ==
    AllDone =>
        \A i \in DOMAIN prev_pass :
            /\ prev_pass[i].rs = rs_file.text
            /\ AfterFirstLine(prev_pass[i].ffi) = AfterFirstLine(ffi_file.text)
            /\ StartsWith(prev_pass[i].ffi, LitInclude)
            /\ StartsWith(ffi_file.text, LitInclude)

\* A second pass finished that gave its header another name than the first,
\* with wrappers in the `.c` file.
C2_Witness ==
    /\ AllDone
    /\ prev_pass # <<>>
    /\ prev_pass[1].ffi # ffi_file.text
    /\ Len(CWrapperLines(ffi_file.text)) >= 2

\* C7: for every provider P and probe Q parsed, the wrapper, the extern
\* declaration and the call in the binding all use the symbol
\* lower(safe(P))_probe_lower(safe(Q)), the wrapper invokes the macro
\* upper(safe(P))_upper(safe(Q)), and the binding function is lower(safe(Q))
\* in the module lower(safe(P)).
C7_NamesAgree ==
    AllDone =>
        LET pairs == ProbePairs(providers)
            symbols == [k \in DOMAIN pairs |->
                           to_lowercase(safe_name(pairs[k][1].name)) \o LitProbeInfix
                           \o to_lowercase(safe_name(pairs[k][2].name))]
        IN  /\ Heads(CWrapperLines(ffi_file.text)) = symbols
            /\ Heads(RsExternLines(rs_file.text)) = symbols
            /\ Heads(RsCallLines(rs_file.text)) = symbols
            /\ Heads(CMacroLines(ffi_file.text)) =
                   [k \in DOMAIN pairs |->
                       to_uppercase(safe_name(pairs[k][1].name)) \o <<"_">>
                       \o to_uppercase(safe_name(pairs[k][2].name))]
            /\ Heads(RsFnLines(rs_file.text)) =
                   [k \in DOMAIN pairs |-> to_lowercase(safe_name(pairs[k][2].name))]
            /\ RsFnModules(rs_file.text) =
                   [k \in DOMAIN pairs |-> to_lowercase(safe_name(pairs[k][1].name))]

\* A finished pass over a probe named my__Probe of a provider named Hopla.
C7_Witness ==
    /\ AllDone
    /\ \E i \in DOMAIN providers : \E j \in DOMAIN providers[i].probes :
           /\ providers[i].name = <<"H", "o", "p", "l", "a">>
           /\ providers[i].probes[j].name = <<"m", "y", "_", "_", "P", "r", "o", "b", "e">>
    /\ \E k \in DOMAIN CWrapperLines(ffi_file.text) :
           Heads(CWrapperLines(ffi_file.text))[k] =
               <<"h", "o", "p", "l", "a", "_", "p", "r", "o", "b", "e", "_",
                 "m", "y", "_", "p", "r", "o", "b", "e">>

\* The places where t occurs in str.
Occurrences(str, t) ==
    Bind(str, LAMBDA s : {i \in 1..(Len(s) - Len(t) + 1) : SubSeq(s, i, i + Len(t) - 1) = t})

\* The word that follows position i of a text: white space is skipped, the
\* word ends at white space or at one of { ( ;
WordAfter(text, i) ==
    Bind(Drop(text, i), LAMBDA r :
        Bind(Drop(r, PrefixLen(r, WhiteSpace)), LAMBDA w :
            Take(w, PrefixLen(w, Char \ (WhiteSpace \cup {"{", "(", ";"})))))

\* The names written after each `provider` keyword of a text, in text order.
DeclaredProviders(text) ==
    Bind(Sorted(Occurrences(text, KwProvider)), LAMBDA at :
        [k \in DOMAIN at |-> WordAfter(text, at[k] + Len(KwProvider) - 1)])

\* <<provider name, probe name>> for each `probe` keyword of a text, in text
\* order: the probe's name and the name of the last `provider` before it.
DeclaredProbes(text) ==
    Bind(Occurrences(text, KwProvider), LAMBDA pvs :
        Bind(Sorted(Occurrences(text, KwProbe)), LAMBDA at :
            [k \in DOMAIN at |->
                <<WordAfter(text, (CHOOSE a \in pvs :
                                      a < at[k] /\ \A b \in pvs : b < at[k] => b <= a)
                                  + Len(KwProvider) - 1),
                  WordAfter(text, at[k] + Len(KwProbe) - 1)>>]))

\* The files were all parsed by this pass.
Collected == pc \in {"h_file", "ffi", "cc", "rs_create", "rs_write", "done"}
             \/ (pc = "panicked" /\ ffi_file.written)

\* C8: the providers collected are those of the text, in text order and, over
\* several files, in the order the files were added; each generated file lists
\* the symbols of the probes in that order, provider after provider.
C8_EmissionOrderIsTextOrder ==
    Bind(Concat(d_files), LAMBDA text :
    Bind(DeclaredProviders(text), LAMBDA declared_pvs :
    Bind(DeclaredProbes(text), LAMBDA declared :
    Bind([k \in DOMAIN declared |->
             to_lowercase(safe_name(declared[k][1])) \o LitProbeInfix
             \o to_lowercase(safe_name(declared[k][2]))], LAMBDA symbols :
    Bind(ProbePairs(providers), LAMBDA pairs :
        /\ Collected =>
            /\ [i \in DOMAIN providers |-> providers[i].name] = declared_pvs
            /\ [k \in DOMAIN pairs |-> <<pairs[k][1].name, pairs[k][2].name>>] = declared
        /\ ffi_file.written => Heads(CWrapperLines(ffi_file.text)) = symbols
        /\ rs_file.written =>
            /\ Heads(RsExternLines(rs_file.text)) = symbols
            /\ Heads(RsCallLines(rs_file.text)) = symbols
            /\ RsModNames(rs_file.text) =
                   [i \in DOMAIN declared_pvs |-> to_lowercase(safe_name(declared_pvs[i]))]
            /\ RsFnModules(rs_file.text) =
                   [k \in DOMAIN declared |-> to_lowercase(safe_name(declared[k][1]))]
            /\ Heads(RsFnLines(rs_file.text)) =
                   [k \in DOMAIN declared |-> to_lowercase(safe_name(declared[k][2]))])))))

\* A finished pass over two files with different providers, one of them with
\* two providers and one provider with two probes.
C8_Witness ==
    /\ AllDone
    /\ Len(d_files) = 2
    /\ parse(d_files[1]).providers # <<>>
    /\ Len(parse(d_files[2]).providers) = 2
    /\ parse(d_files[1]).providers[1].name # parse(d_files[2]).providers[1].name
    /\ \E i \in DOMAIN providers : Len(providers[i].probes) = 2
    /\ Len(RsModNames(rs_file.text)) = 3

\* C10: for a probe parsed with N arguments, the wrapper has the N parameters
\* arg0..argN-1 and forwards these N names in order to the macro, and the
\* extern declaration and the binding function have the N parameters
\* arg0..argN-1, the binding forwarding them in order; none for N = 0.
C10_ArityPreserved ==
    AllDone =>
        LET pairs == ProbePairs(providers)
            wrappers == CWrapperLines(ffi_file.text)
            macros == CMacroLines(ffi_file.text)
            externs == RsExternLines(rs_file.text)
            fns == RsFnLines(rs_file.text)
            calls == RsCallLines(rs_file.text)
        IN  /\ Len(wrappers) = Len(pairs) /\ Len(macros) = Len(pairs)
            /\ Len(externs) = Len(pairs) /\ Len(fns) = Len(pairs)
            /\ Len(calls) = Len(pairs)
            /\ \A k \in DOMAIN pairs :
                LET names == ArgNames(Len(pairs[k][2].arguments))
                    cparams == ListEntries(InParens(wrappers[k]))
                    eparams == ListEntries(InParens(externs[k]))
                    fparams == ListEntries(InParens(fns[k]))
                IN  /\ [i \in DOMAIN cparams |-> AfterLast(cparams[i], " ")] = names
                    /\ ListEntries(InParens(macros[k])) = names
                    /\ [i \in DOMAIN eparams |-> Before(eparams[i], ":")] = names
                    /\ [i \in DOMAIN fparams |-> Before(fparams[i], ":")] = names
                    /\ ListEntries(InParens(calls[k])) = names

\* A finished pass over a probe with two arguments and a probe with none.
C10_Witness ==
    /\ AllDone
    /\ \E k \in DOMAIN ProbePairs(providers) :
           /\ Len(ProbePairs(providers)[k][2].arguments) = 2
           /\ Len(ListEntries(InParens(CWrapperLines(ffi_file.text)[k]))) = 2
    /\ \E k \in DOMAIN ProbePairs(providers) :
           /\ ProbePairs(providers)[k][2].arguments = <<>>
           /\ InParens(RsFnLines(rs_file.text)[k]) = <<>>

----------------------------------------------------------------------------
(* The parser on its own: probe() on probe texts, parse() on scripts *)

\* Probe declarations as in the parser's tests: `probe abc();`,
\* `probe abc(char*);`, `probe abc(char*, uint8_t);`.  An argument is a base
\* type and its pointer markers.
TyChar == <<"c", "h", "a", "r">>
TyUint8 == <<"u", "i", "n", "t", "8", "_", "t">>
NameAbc == <<"a", "b", "c">>

ProbeShapes ==
    { [name |-> NameAbc, args |-> <<>>],
      [name |-> NameAbc, args |-> <<[base |-> TyChar, stars |-> <<"*">>]>>],
      [name |-> NameAbc, args |-> <<[base |-> TyChar, stars |-> <<"*">>],
                                    [base |-> TyUint8, stars |-> <<>>]>>] }

\* The places of a probe text where white space may stand: 1 after `probe`,
\* 2 before `(`, 3 after `(`, then for argument i: 3i+1 before it, 3i+2
\* between its base type and its pointer markers, 3i+3 after it; the last
\* one before `;`.
NumSlots(d) == 3 * Len(d.args) + 4
InnerSlots(d) == {3 * i + 2 : i \in 1..Len(d.args)}

\* At most this many white space characters are put into a probe text.
MaxWs == 2

\* The text of a probe declaration with the given white space.
RenderProbe(d, gaps) ==
    KwProbe \o gaps[1] \o d.name \o gaps[2] \o <<"(">> \o gaps[3]
    \o Join([i \in 1..Len(d.args) |->
                gaps[3 * i + 1] \o d.args[i].base \o gaps[3 * i + 2]
                \o d.args[i].stars \o gaps[3 * i + 3]], <<",">>)
    \o <<")">> \o gaps[NumSlots(d)] \o <<";">>

\* Provider blocks, well-formed and not: `defect` tells which piece of the
\* syntax is missing or broken.  (Blocks without a name, or with a character
\* in the name that is no letter, are listed with no defect of syntax.)
NameFoo == <<"f", "o", "o">>
NameBar == <<"B", "a", "r", "-", "2">>
NameXy == <<"x", "_", "y">>
NoProbe == <<"-">>

Blocks ==
    { [name |-> NameFoo, probe |-> NoProbe, defect |-> "none"],
      [name |-> NameBar, probe |-> NameXy, defect |-> "none"],
      [name |-> <<>>, probe |-> NoProbe, defect |-> "none"],
      [name |-> NameFoo, probe |-> <<>>, defect |-> "none"],
      [name |-> <<"a", "U+2041">>, probe |-> NoProbe, defect |-> "none"],
      [name |-> <<"a", "$", "b">>, probe |-> NoProbe, defect |-> "name"],
      [name |-> NameFoo, probe |-> NoProbe, defect |-> "brace"],
      [name |-> NameFoo, probe |-> NameXy, defect |-> "paren"],
      [name |-> NameFoo, probe |-> NameXy, defect |-> "probe_semicolon"],
      [name |-> NameFoo, probe |-> NoProbe, defect |-> "semicolon"] }

\* At most this many provider blocks are put into a script.
MaxBlocks == 2

\* The text of a provider block: `provider NAME { probe P(int); };` less the
\* piece its defect leaves out.
RenderBlock(b) ==
    KwProvider \o <<" ">> \o b.name \o <<" ", "{">>
    \o (IF b.probe = NoProbe THEN <<>>
        ELSE <<" ">> \o KwProbe \o <<" ">> \o b.probe \o <<"(", "i", "n", "t">>
             \o (IF b.defect = "paren" THEN <<>> ELSE <<")">>)
             \o (IF b.defect = "probe_semicolon" THEN <<>> ELSE <<";">>))
    \o (IF b.defect = "brace" THEN <<>> ELSE <<" ", "}">>)
    \o (IF b.defect = "semicolon" THEN <<>> ELSE <<";">>)
    \o <<"\n">>

RenderScript(bs) == Concat([i \in DOMAIN bs |-> RenderBlock(bs[i])])

ParserTexts ==
    \/ /\ \E d \in ProbeShapes :
              /\ f_in = [probe |-> d, gaps |-> [i \in 1..NumSlots(d) |-> <<>>]]
              /\ p_input = RenderProbe(d, [i \in 1..NumSlots(d) |-> <<>>])
       /\ p_state = "probe text"
       /\ p_rest = <<>> /\ p_script = <<>> /\ p_probe = <<>> /\ f_out = <<>>
    \/ /\ f_in = [blocks |-> <<>>]
       /\ p_input = <<>>
       /\ p_state = "script text"
       /\ p_rest = <<>> /\ p_script = <<>> /\ p_probe = <<>> /\ f_out = <<>>

\* The sum of the lengths of a sequence of strings.
RECURSIVE TotalLen(_, _)
TotalLen(ss, n) == IF n = 0 THEN 0 ELSE TotalLen(ss, n - 1) + Len(ss[n])

\* One more white space character is written into the probe text.
widen_probe_text ==
    /\ p_state = "probe text"
    /\ TotalLen(f_in.gaps, Len(f_in.gaps)) < MaxWs
    /\ \E slot \in DOMAIN f_in.gaps : \E c \in WsChars :
           /\ slot \in InnerSlots(f_in.probe) => f_in.probe.args[(slot - 2) \div 3].stars # <<>>
           /\ f_in' = [f_in EXCEPT !.gaps[slot] = Append(@, c)]
           /\ p_input' = RenderProbe(f_in.probe, f_in'.gaps)
    /\ UNCHANGED <<p_rest, p_script, p_state, p_probe, f_out>>

\* probe() is applied to the probe text.
apply_probe ==
    /\ p_state = "probe text"
    /\ p_probe' = probe(p_input)
    /\ p_state' = "probed"
    /\ UNCHANGED <<p_input, p_rest, p_script, f_in, f_out>>

\* One more provider block is written into the script.
append_block ==
    /\ p_state = "script text"
    /\ Len(f_in.blocks) < MaxBlocks
    /\ \E b \in Blocks :
           /\ f_in' = [blocks |-> Append(f_in.blocks, b)]
           /\ p_input' = p_input \o RenderBlock(b)
    /\ UNCHANGED <<p_rest, p_script, p_state, p_probe, f_out>>

\* parse() is called on the script: script() starts with no providers.
parse_begin ==
    /\ p_state = "script text"
    /\ p_rest' = p_input
    /\ p_script' = <<>>
    /\ p_state' = "scan"
    /\ UNCHANGED <<p_input, p_probe, f_in, f_out>>

\* One iteration of script's loop; its return ends parse() with Ok(script) or
\* with Err and no script.
script_loop ==
    /\ p_state = "scan"
    /\ LET it == script_iteration(p_rest, p_script)
       IN  /\ p_rest' = it.input
           /\ p_script' = it.providers
           /\ p_state' = IF it.step = "more" THEN "scan" ELSE it.step
    /\ UNCHANGED <<p_input, p_probe, f_in, f_out>>

ParserNext ==
    \/ widen_probe_text /\ UNCHANGED builder_vars
    \/ apply_probe /\ UNCHANGED builder_vars
    \/ append_block /\ UNCHANGED builder_vars
    \/ parse_begin /\ UNCHANGED builder_vars
    \/ script_loop /\ UNCHANGED builder_vars

ParserInit == BuilderInit /\ ParserTexts

SpecParser == ParserInit /\ [][ParserNext]_vars

----------------------------------------------------------------------------
(* Claims about the parser *)

NoGaps(d) == [i \in 1..NumSlots(d) |-> <<>>]

\* The white space of a probe text that stands inside a type spelling.
InnerGaps(d, gaps) == [i \in 1..NumSlots(d) |-> IF i \in InnerSlots(d) THEN gaps[i] ELSE <<>>]

\* C3 (as claimed): probe texts that differ only in the white space between
\* tokens, that between a base type and its pointer markers included, parse
\* to equal Probe values.
C3_WhitespaceInsignificant ==
    p_state = "probed" =>
        /\ p_probe.ok
        /\ p_probe.out = probe(RenderProbe(f_in.probe, NoGaps(f_in.probe))).out

\* C3 (amended): probe texts that differ only in the white space around the
\* name, the parentheses, the commas, the semicolon and the arguments parse to
\* equal Probe values; white space inside an argument, as between a base type
\* and its pointer markers, is kept in the argument as written.
C3_OuterWhitespaceInsignificant ==
    p_state = "probed" =>
        /\ p_probe.ok
        /\ p_probe.rest = <<>>
        /\ p_probe.out =
               probe(RenderProbe(f_in.probe, InnerGaps(f_in.probe, f_in.gaps))).out
        /\ p_probe.out.name = f_in.probe.name
        /\ p_probe.out.arguments =
               [i \in 1..Len(f_in.probe.args) |->
                   f_in.probe.args[i].base \o f_in.gaps[3 * i + 2] \o f_in.probe.args[i].stars]

\* probe() was applied to a text with white space before an argument and
\* inside it.
C3_Witness ==
    /\ p_state = "probed"
    /\ Len(f_in.probe.args) = 2
    /\ f_in.gaps[4] # <<>>
    /\ f_in.gaps[5] # <<>>
    /\ p_probe.ok

\* Letters and digits.
Alphanumeric == Range(LowerLetters) \cup Range(UpperLetters) \cup Range(Digits)
IsIdentifier(s) == s # <<>> /\ \A i \in DOMAIN s : s[i] \in Alphanumeric \cup {"-", "_"}

\* C5 (as claimed): in a Script that parse returns, every provider name and
\* every probe name is non-empty and made of alphanumeric characters, `-` and
\* `_`; a block without a name is not accepted.
C5_NamesAreIdentifiers ==
    p_state = "Ok" =>
        \A i \in DOMAIN p_script :
            /\ IsIdentifier(p_script[i].name)
            /\ \A j \in DOMAIN p_script[i].probes : IsIdentifier(p_script[i].probes[j].name)

\* C9 (as claimed): when a provider block of the input, or a probe of it, is
\* malformed, parse returns an error and no Script, also after well-formed
\* blocks.
C9_MalformedBlockFails ==
    (p_state \in {"Ok", "Err"} /\ \E i \in DOMAIN f_in.blocks : f_in.blocks[i].defect # "none")
        => p_state = "Err" /\ p_script = <<>>

----------------------------------------------------------------------------
(* Names::safe_name on its own *)

\* Names are drawn over these characters, up to this length.
NameAlphabet == {"a", "B", "-", "_"}
MaxNameLen == 5

NamesInit ==
    /\ BuilderInit /\ ParserIdle
    /\ f_in = <<>>
    /\ f_out = <<>>

\* One more character of the name.
extend_name ==
    /\ f_out = <<>>
    /\ Len(f_in) < MaxNameLen
    /\ \E c \in NameAlphabet : f_in' = Append(f_in, c)
    /\ UNCHANGED f_out

\* safe_name is applied to the name, then to its own result.
apply_safe_name ==
    /\ Len(f_out) < 2
    /\ f_out' = Append(f_out, safe_name(IF f_out = <<>> THEN f_in ELSE f_out[Len(f_out)]))
    /\ UNCHANGED f_in

NamesNext ==
    \/ extend_name /\ UNCHANGED <<builder_vars, parser_vars>>
    \/ apply_safe_name /\ UNCHANGED <<builder_vars, parser_vars>>

SpecNames == NamesInit /\ [][NamesNext]_vars

Underscores3 == <<"_", "_", "_">>

\* C4 (as claimed): safe_name applied twice gives what it gives applied once,
\* for every name, runs of three or more underscores included.
C4_SafeNameIdempotent ==
    Len(f_out) = 2 => f_out[2] = f_out[1]

\* C4 (amended): safe_name applied twice gives what it gives applied once
\* exactly for the names with no run of three or more underscores.
C4_SafeNameIdempotentUpToPairs ==
    Len(f_out) = 2 => (f_out[2] = f_out[1] <=> Find(f_in, Underscores3) = 0)

\* safe_name was applied twice to a name with a pair of underscores, and
\* changed it the first time.
C4_Witness ==
    /\ Len(f_out) = 2
    /\ Find(f_in, <<"_", "_">>) # 0
    /\ Find(f_in, Underscores3) = 0
    /\ f_out[1] # f_in
    /\ f_out[2] = f_out[1]

----------------------------------------------------------------------------
(* The type mapping of Probe::arguments_for_c_from_rust on its own *)

\* Type spellings: a base, one of the table or not, and what is written after
\* it, up to MaxSuffix characters of SuffixChars.
OtherBases ==
    { <<"s", "t", "r", "i", "n", "g">>,
      <<"u", "n", "s", "i", "g", "n", "e", "d", " ", "i", "n", "t">>,
      <<"l", "o", "n", "g", " ", " ", "l", "o", "n", "g">>,
      <<"C", "h", "a", "r">>,
      <<"v", "o", "i", "d">> }
SuffixChars == {" ", "*", "\t"}
MaxSuffix == 2

Spelling(t) == t.base \o t.suffix

TypesInit ==
    /\ BuilderInit /\ ParserIdle
    /\ \E b \in TypeBases \cup OtherBases : f_in = [base |-> b, suffix |-> <<>>]
    /\ f_out = <<>>

\* One more character of the spelling.
extend_type ==
    /\ f_out = <<>>
    /\ Len(f_in.suffix) < MaxSuffix
    /\ \E c \in SuffixChars : f_in' = [f_in EXCEPT !.suffix = Append(@, c)]
    /\ UNCHANGED f_out

\* The spelling, trimmed as the parser leaves an argument, is mapped as the
\* only argument of a probe.
apply_type_mapping ==
    /\ f_out = <<>>
    /\ Spelling(f_in) = trim(Spelling(f_in))
    /\ f_out' = <<arguments_for_c_from_rust(Probe(NameAbc, <<Spelling(f_in)>>))>>
    /\ UNCHANGED f_in

TypesNext ==
    \/ extend_type /\ UNCHANGED <<builder_vars, parser_vars>>
    \/ apply_type_mapping /\ UNCHANGED <<builder_vars, parser_vars>>

SpecTypes == TypesInit /\ [][TypesNext]_vars

\* What a spelling ends with: its pointer markers and the white space around them.
PointerTail(str) == Bind(str, LAMBDA s : Drop(s, Len(s) - SuffixLen(s, WhiteSpace \cup {"*"})))
\* The spelling without its trailing pointer markers and surrounding white space.
BaseToken(str) == Bind(str, LAMBDA s : trim(Take(s, Len(s) - Len(PointerTail(s)))))

\* C6 (as claimed): the mapping of an argument succeeds exactly when its
\* spelling, less the trailing `*` and the white space around, is a base type
\* of the table; it then gives the table's type under one `*mut ` for each
\* trailing `*`; otherwise it fails naming the spelling.
C6_MappingFollowsTable ==
    f_out # <<>> =>
        Bind(Spelling(f_in), LAMBDA s :
            /\ f_out[1].ok <=> BaseToken(s) \in TypeBases
            /\ f_out[1].ok =>
                   f_out[1].text =
                       LitArg \o <<"0">> \o LitColon
                       \o repeat(LitMutPtr, number_of_pointers(PointerTail(s)))
                       \o (CHOOSE row \in Range(TypeTable) : row[1] = BaseToken(s))[2]
            /\ ~f_out[1].ok => f_out[1].panic # <<>>)

----------------------------------------------------------------------------
(* script's scan over provider blocks and the text around them *)

\* Text that is no provider block: comments and a pragma, one of the comments
\* mentioning the word `provider`.
\* /* probes */\n
TextComment ==
    <<"/", "*", " ", "p", "r", "o", "b", "e", "s", " ", "*", "/", "\n">>

\* /* the provider of foo */\n
TextMention ==
    <<"/", "*", " ", "t", "h", "e", " ", "p", "r", "o", "v", "i", "d", "e", "r", " ", "o", "f",
      " ", "f", "o", "o", " ", "*", "/", "\n">>

OtherTexts == {TextComment, TextPragma, TextMention}

\* The pieces of an input: well-formed provider blocks and other text.
Pieces ==
    { [kind |-> "block", name |-> NameFoo, probe |-> NoProbe, text |-> <<>>],
      [kind |-> "block", name |-> NameBar, probe |-> NameXy, text |-> <<>>] }
    \cup { [kind |-> "text", name |-> <<>>, probe |-> NoProbe, text |-> t] : t \in OtherTexts }

\* At most this many pieces are put into an input.
MaxPieces == 3

RenderPiece(pc_) ==
    IF pc_.kind = "text" THEN pc_.text
    ELSE RenderBlock([name |-> pc_.name, probe |-> pc_.probe, defect |-> "none"])

ScanInit ==
    /\ BuilderInit
    /\ f_in = [pieces |-> <<>>]
    /\ p_input = <<>>
    /\ p_state = "script text"
    /\ p_rest = <<>> /\ p_script = <<>> /\ p_probe = <<>> /\ f_out = <<>>

\* One more piece is written into the input.
append_piece ==
    /\ p_state = "script text"
    /\ Len(f_in.pieces) < MaxPieces
    /\ \E q \in Pieces :
           /\ f_in' = [pieces |-> Append(f_in.pieces, q)]
           /\ p_input' = p_input \o RenderPiece(q)
    /\ UNCHANGED <<p_rest, p_script, p_state, p_probe, f_out>>

ScanNext ==
    \/ append_piece /\ UNCHANGED builder_vars
    \/ parse_begin /\ UNCHANGED builder_vars
    \/ script_loop /\ UNCHANGED builder_vars

SpecScan == ScanInit /\ [][ScanNext]_vars

\* The providers of the blocks among the first n pieces, in order.
RECURSIVE BlockProviders(_, _)
BlockProviders(ps, n) ==
    IF n = 0 THEN <<>>
    ELSE IF ps[n].kind = "text" THEN BlockProviders(ps, n - 1)
    ELSE Append(BlockProviders(ps, n - 1),
                [name |-> ps[n].name,
                 probes |-> IF ps[n].probe = NoProbe THEN <<>>
                            ELSE <<Probe(ps[n].probe, << <<"i", "n", "t">> >>)>>])

\* C11 (as claimed): on an input of well-formed provider blocks with other
\* text before and between them, comments that mention the word `provider`
\* included, parse ends with Ok and exactly the providers of the blocks, in
\* order; with no block it ends with Ok and no provider.
C11_OtherTextIsSkipped ==
    p_state \in {"Ok", "Err"} =>
        /\ p_state = "Ok"
        /\ p_script = BlockProviders(f_in.pieces, Len(f_in.pieces))

====
